---- MODULE Spec2Model ----
(***************************************************************************)
(* Model of src/app.py: the wide CSV grid is split into per-company        *)
(* frames (lines 26-59), and every user selection recomputes the           *)
(* aggregated and the growth frames from the stored frame (lines 63-249).  *)
(*                                                                         *)
(* Encodings.  A header cell and a column label are sequences of           *)
(* characters, so that str.strip() is computed and not assumed.  A         *)
(* calendar date is the integer YYYYMMDD, NaT is 0.  A float is a record   *)
(* [k, v] with k one of "num", "nan", "inf", "ninf".                       *)
(***************************************************************************)
EXTENDS Integers, Sequences, FiniteSets, TLC

VARIABLES grid, columns, i, company_data, companies, pc,
          selected_company, data_frequency, start_year, end_year,
          current_year, aggregated_df, growth_df

vars == <<grid, columns, i, company_data, companies, pc,
          selected_company, data_frequency, start_year, end_year,
          current_year, aggregated_df, growth_df>>

(* ------------------------------ bounds -------------------------------- *)
MaxCols == 5
MaxRows == 2

(* ------------------------------ values -------------------------------- *)
NaN == [k |-> "nan", v |-> 0]
Inf == [k |-> "inf", v |-> 0]
NInf == [k |-> "ninf", v |-> 0]
Num(n) == [k |-> "num", v |-> n]
NaT == 0
None == <<>>

Blank == [kind |-> "blank", v |-> 0]
Text == [kind |-> "text", v |-> 0]
DateCell(d) == [kind |-> "date", v |-> d]
NumCell(n) == [kind |-> "num", v |-> n]

HeaderCells == {<<>>, <<" ">>, <<"A">>, <<" ", "B">>}
Dates == {20230220, 20230305, 20231130, 20240815}
CurrentYears == {2024, 2025}
Frequencies == {"Quarterly", "Annual"}
FillMethods == {"pad", "none"}

(* ------------------------- sequence helpers --------------------------- *)
Range(s) == {s[n] : n \in 1..Len(s)}

RECURSIVE SeqsUpTo(_, _)
SeqsUpTo(S, n) ==
    IF n = 0 THEN {<<>>}
    ELSE LET shorter == SeqsUpTo(S, n - 1)
         IN  shorter \cup {Append(s, x) : s \in {t \in shorter : Len(t) = n - 1}, x \in S}

Year(d) == d \div 10000
Month(d) == (d \div 100) % 100

(* ----------------------- pd.read_csv, header row ---------------------- *)
\* An empty header cell is labelled "Unnamed: <position>".
Unnamed(n) == <<"Unnamed: ", ToString(n)>>

RawLabel(headers, n) == IF headers[n] = <<>> THEN Unnamed(n - 1) ELSE headers[n]

\* A label seen before gets the suffix ".<count>".
DupCount(headers, n) ==
    Cardinality({m \in 1..(n - 1) : RawLabel(headers, m) = RawLabel(headers, n)})

ReadCsvColumns(headers) ==
    [n \in 1..Len(headers) |->
        IF DupCount(headers, n) = 0 THEN RawLabel(headers, n)
        ELSE RawLabel(headers, n) \o <<".", ToString(DupCount(headers, n))>>]

(* ------------------------------ str.strip ----------------------------- *)
RECURSIVE LStrip(_)
LStrip(s) == IF s # <<>> /\ Head(s) = " " THEN LStrip(Tail(s)) ELSE s

RECURSIVE RStrip(_)
RStrip(s) ==
    IF s # <<>> /\ s[Len(s)] = " " THEN RStrip(SubSeq(s, 1, Len(s) - 1)) ELSE s

Strip(s) == RStrip(LStrip(s))

(* ------------------------- the normalizer ----------------------------- *)
\* pd.to_datetime(errors='coerce') on one cell
ToDatetime(c) == IF c.kind = "date" THEN c.v ELSE NaT

\* pd.to_numeric(errors='coerce') on one cell
ToNumeric(c) == IF c.kind = "num" THEN Num(c.v) ELSE NaN

BlockColumns == <<"Date", "EPS", "Share Price">>

\* dropna(subset=['Date']): only a missing cell is NaN at that point.
DropnaDate(rows) == SelectSeq(rows, LAMBDA r : r[1].kind # "blank")

\* lines 40-50 for the block whose first column has 0-based index n
NormalizeBlock(n) ==
    LET raw == [r \in 1..Len(grid.rows) |-> SubSeq(grid.rows[r], n + 1, n + 3)]
        kept == DropnaDate(raw)
    IN  [columns |-> BlockColumns,
         rows |-> [r \in 1..Len(kept) |->
                     [Date |-> ToDatetime(kept[r][1]),
                      EPS |-> ToNumeric(kept[r][2]),
                      SharePrice |-> ToNumeric(kept[r][3])]]]

\* dict item assignment, line 53
DictSet(d, key, val) ==
    [x \in (DOMAIN d) \cup {key} |-> IF x = key THEN val ELSE d[x]]

num_columns == Len(columns)

\* df.columns[i:i+3]: a slice stops at the end of the index
SliceCols(n) == SubSeq(columns, n + 1, IF n + 3 <= num_columns THEN n + 3 ELSE num_columns)

(* ------------------------------ the scan ------------------------------ *)
\* lines 34-37
ScanSkip ==
    /\ pc = "scan"
    /\ i < num_columns
    /\ Strip(columns[i + 1]) = <<>>
    /\ i' = i + 1
    /\ UNCHANGED <<grid, columns, company_data, companies, pc, selected_company,
                   data_frequency, start_year, end_year, current_year,
                   aggregated_df, growth_df>>

\* lines 39-56; assigning three labels to fewer columns raises ValueError
ScanBlock ==
    /\ pc = "scan"
    /\ i < num_columns
    /\ Strip(columns[i + 1]) # <<>>
    /\ IF Len(SliceCols(i)) # Len(BlockColumns)
       THEN /\ pc' = "raised"
            /\ UNCHANGED <<i, company_data, companies>>
       ELSE /\ company_data' = DictSet(company_data, Strip(columns[i + 1]), NormalizeBlock(i))
            /\ companies' = IF Strip(columns[i + 1]) \in Range(companies) THEN companies
                            ELSE Append(companies, Strip(columns[i + 1]))
            /\ i' = i + 4
            /\ pc' = pc
    /\ UNCHANGED <<grid, columns, selected_company, data_frequency, start_year,
                   end_year, current_year, aggregated_df, growth_df>>

(* --------------------------- frame access ----------------------------- *)
\* company_df = company_data[selected_company] binds the stored object itself
Stored(sel) == [ref |-> "stored", frame |-> company_data[sel]]

\* a filter that would work on the bound object itself
GetItemMaskInPlace(loc, mask) ==
    [ref |-> loc.ref,
     frame |-> [columns |-> loc.frame.columns,
                rows |-> LET pick[n \in 0..Len(mask)] ==
                                 IF n = 0 THEN <<>>
                                 ELSE IF mask[n] THEN Append(pick[n - 1], loc.frame.rows[n])
                                 ELSE pick[n - 1]
                         IN  pick[Len(mask)]]]

\* frame[mask]: boolean indexing builds a new frame
GetItemMask(loc, mask) ==
    [ref |-> "fresh",
     frame |-> [columns |-> loc.frame.columns,
                rows |-> LET pick[n \in 0..Len(mask)] ==
                             IF n = 0 THEN <<>>
                             ELSE IF mask[n] THEN Append(pick[n - 1], loc.frame.rows[n])
                             ELSE pick[n - 1]
                         IN  pick[Len(mask)]]]

\* frame[name] = values: the column is added to the object the name refers to
SetItemColumn(loc, name) ==
    [ref |-> loc.ref,
     frame |-> [columns |-> IF name \in Range(loc.frame.columns) THEN loc.frame.columns
                            ELSE Append(loc.frame.columns, name),
                rows |-> loc.frame.rows]]

\* a range filter whose upper end is exclusive
YearRangeMaskExclusive(frame, s, e) ==
    [n \in 1..Len(frame.rows) |->
        /\ frame.rows[n].Date # NaT
        /\ Year(frame.rows[n].Date) >= s
        /\ Year(frame.rows[n].Date) < e]

\* line 86: the comparison of a NaT year (NaN) is False
YearRangeMask(frame, s, e) ==
    [n \in 1..Len(frame.rows) |->
        /\ frame.rows[n].Date # NaT
        /\ Year(frame.rows[n].Date) >= s
        /\ Year(frame.rows[n].Date) <= e]

\* an exclusion that would keep the current year
UpToYearMask(frame, cy) ==
    [n \in 1..Len(frame.rows) |->
        frame.rows[n].Date # NaT /\ Year(frame.rows[n].Date) <= cy]

\* line 93
BeforeYearMask(frame, cy) ==
    [n \in 1..Len(frame.rows) |->
        frame.rows[n].Date # NaT /\ Year(frame.rows[n].Date) < cy]

(* ------------------------------ sorting ------------------------------- *)
\* sort_values('Date'): ascending, NaT last, equal keys keep their order
DateLE(a, b) == b = NaT \/ (a # NaT /\ a <= b)

RECURSIVE InsertByDate(_, _)
InsertByDate(sorted, r) ==
    IF sorted = <<>> THEN <<r>>
    ELSE IF DateLE(sorted[Len(sorted)].Date, r.Date) THEN Append(sorted, r)
    ELSE Append(InsertByDate(SubSeq(sorted, 1, Len(sorted) - 1), r), sorted[Len(sorted)])

RECURSIVE SortByDate(_)
SortByDate(rows) ==
    IF rows = <<>> THEN <<>>
    ELSE InsertByDate(SortByDate(SubSeq(rows, 1, Len(rows) - 1)), rows[Len(rows)])

RECURSIVE SortedSeq(_)
SortedSeq(S) ==
    IF S = {} THEN <<>>
    ELSE LET m == CHOOSE x \in S : \A y \in S : x <= y
         IN  <<m>> \o SortedSeq(S \ {m})

(* ----------------------------- aggregation ---------------------------- *)
Quarter(d) == ((Month(d) - 1) \div 3) + 1

\* dt.year (line 96) or dt.to_period('Q') (line 108), the quarter as year*10+q
PeriodKey(d, freq) == IF freq = "Annual" THEN Year(d) ELSE Year(d) * 10 + Quarter(d)

\* Period.start_time: the first day of the quarter
QuarterStart(p) == (p \div 10) * 10000 + (3 * (p % 10) - 2) * 100 + 1

\* Period.end_time, line 116: the last day of the quarter
QuarterEnd(p) ==
    LET q == p % 10
    IN  (p \div 10) * 10000 + (3 * q) * 100 + (IF q \in {1, 4} THEN 31 ELSE 30)

\* groupby 'last' on a float column: the last value that is not NaN
RECURSIVE LastValid(_)
LastValid(vals) ==
    IF vals = <<>> THEN NaN
    ELSE IF vals[Len(vals)].k # "nan" THEN vals[Len(vals)]
    ELSE LastValid(SubSeq(vals, 1, Len(vals) - 1))

\* groupby 'last' on the Date column: the last value that is not NaT
RECURSIVE LastValidDate(_)
LastValidDate(ds) ==
    IF ds = <<>> THEN NaT
    ELSE IF ds[Len(ds)] # NaT THEN ds[Len(ds)]
    ELSE LastValidDate(SubSeq(ds, 1, Len(ds) - 1))

\* the one value of a singleton set; a value bound by a set is computed once
The(S) == CHOOSE x \in S : TRUE

\* the aggregation of one group, lines 99-101
LastOfGroup(p, g) ==
    [Period |-> p,
     EPS |-> LastValid([m \in 1..Len(g) |-> g[m].EPS]),
     SharePrice |-> LastValid([m \in 1..Len(g) |-> g[m].SharePrice]),
     Date |-> LastValidDate([m \in 1..Len(g) |-> g[m].Date])]

\* lines 98-102 and 110-114: groups in ascending key order, one row per group
GroupLast(rows, freq) ==
    The({[n \in 1..Len(keys) |->
            The({LastOfGroup(keys[n], g) :
                   g \in {SelectSeq(rows, LAMBDA r : PeriodKey(r.Date, freq) = keys[n])}})] :
         keys \in {SortedSeq({PeriodKey(rows[n].Date, freq) : n \in 1..Len(rows)})}})

\* line 116
SetQuarterEnd(rows) ==
    [n \in 1..Len(rows) |-> [rows[n] EXCEPT !.Date = QuarterEnd(rows[n].Period)]]

(* ------------------------------- growth ------------------------------- *)
\* forward fill, applied by pct_change when fill_method is 'pad'
RECURSIVE FFill(_)
FFill(vals) ==
    IF Len(vals) <= 1 THEN vals
    ELSE LET before == FFill(SubSeq(vals, 1, Len(vals) - 1))
             last == vals[Len(vals)]
         IN  Append(before, IF last.k = "nan" THEN before[Len(before)] ELSE last)

\* (curr / prev - 1) * 100 in IEEE arithmetic
PctOf(prev, curr) ==
    IF prev.k # "num" \/ curr.k # "num" THEN NaN
    ELSE IF prev.v = 0
         THEN IF curr.v > 0 THEN Inf ELSE IF curr.v < 0 THEN NInf ELSE NaN
    ELSE Num(((curr.v - prev.v) * 100) \div prev.v)

\* Series.pct_change() * 100, lines 194-195
PctChange(vals, fill) ==
    The({[n \in 1..Len(vals) |-> IF n = 1 THEN NaN ELSE PctOf(filled[n - 1], filled[n])] :
         filled \in {IF fill = "pad" THEN FFill(vals) ELSE vals}})

\* lines 193-195: the two growth columns are added to aggregated_df
WithGrowth(rows, fill) ==
    The({[n \in 1..Len(sorted) |->
            [Period |-> sorted[n].Period, Date |-> sorted[n].Date,
             EPS |-> sorted[n].EPS, SharePrice |-> sorted[n].SharePrice,
             EPSGrowthRate |-> eg[n], PriceGrowthRate |-> pg[n]]] :
         sorted \in {SortByDate(rows)},
         eg \in {PctChange([n \in 1..Len(rows) |-> SortByDate(rows)[n].EPS], fill)},
         pg \in {PctChange([n \in 1..Len(rows) |-> SortByDate(rows)[n].SharePrice], fill)}})

\* replace([inf, -inf], pd.NA), line 198
ReplaceInf(x) == IF x.k \in {"inf", "ninf"} THEN NaN ELSE x

\* lines 198-199
GrowthFrame(rows) ==
    LET replaced == [n \in 1..Len(rows) |->
                        [rows[n] EXCEPT !.EPSGrowthRate = ReplaceInf(@),
                                        !.PriceGrowthRate = ReplaceInf(@)]]
    IN  SelectSeq(replaced,
                  LAMBDA r : r.EPSGrowthRate.k # "nan" /\ r.PriceGrowthRate.k # "nan")

(* ---------------------------- the recompute --------------------------- *)
(* Streamlit executes the script again on every widget change.  The scan   *)
(* of the unchanged file gives the same company_data each time, so a run   *)
(* is modelled from line 63 on, over the company_data the scan has built.  *)
\* Series.min() / Series.max() skip NaT; NaT when nothing is left
ValidDates(frame) == {frame.rows[n].Date : n \in 1..Len(frame.rows)} \ {NaT}
MinDate(frame) ==
    IF ValidDates(frame) = {} THEN NaT
    ELSE CHOOSE d \in ValidDates(frame) : \A x \in ValidDates(frame) : d <= x
MaxDate(frame) ==
    IF ValidDates(frame) = {} THEN NaT
    ELSE CHOOSE d \in ValidDates(frame) : \A x \in ValidDates(frame) : d >= x

\* lines 88-93 and 96 / 108: the Annual branch filters once more, then either
\* branch adds its grouping column to the frame company_df is bound to
KeyedFrame(inRange, freq, cy) ==
    IF freq = "Annual"
    THEN SetItemColumn(GetItemMask(inRange, BeforeYearMask(inRange.frame, cy)), "Year")
    ELSE SetItemColumn(inRange, "Quarter")

\* lines 98-102 / 110-116 and the sort of line 121, on the rows sorted by Date
Aggregated(sorted, freq) ==
    IF freq = "Annual" THEN SortByDate(GroupLast(sorted, freq))
    ELSE SortByDate(SetQuarterEnd(GroupLast(sorted, freq)))

\* range(min_year, max_year + 1), line 81; empty when the frame has no valid date
SliderYears(sel) ==
    IF MinDate(company_data[sel]) = NaT THEN {}
    ELSE Year(MinDate(company_data[sel]))..Year(MaxDate(company_data[sel]))

Parsed == pc = "scan" /\ i >= num_columns
\* a run has ended: with the charts, with a warning, or with the exception of
\* line 81, which leaves the widgets drawn before it usable
Rendered == pc \in {"shown", "warned"} \/ (pc = "raised" /\ i >= num_columns)

\* datetime.datetime.now().year is read by the Annual branch only, line 90
Clock(freq) == IF freq = "Annual" THEN CurrentYears ELSE {0}

\* pct_change fills forward by default in the pandas releases before 3.0 and
\* does not fill from 3.0 on; the two agree unless a value is missing
FillChoices(rows) ==
    IF \E n \in 1..Len(rows) : rows[n].EPS.k = "nan" \/ rows[n].SharePrice.k = "nan"
    THEN FillMethods ELSE {"pad"}

\* lines 67-249 for the widget values sel, freq, (s, e) and the clock cy
Run(sel, freq, s, e, cy) ==
    /\ selected_company' = sel
    /\ data_frequency' = freq
    /\ IF sel = None \/ (sel # None /\ company_data[sel].rows = <<>>)
       THEN \* st.warning, lines 245-249
            /\ pc' = "warned"
            /\ aggregated_df' = <<>>
            /\ growth_df' = <<>>
            /\ start_year' = 0 /\ end_year' = 0 /\ current_year' = 0
            /\ company_data' = company_data
       ELSE IF SliderYears(sel) = {}
       THEN \* NaT.year is nan and range(nan, nan + 1) raises TypeError, line 81
            /\ pc' = "raised"
            /\ aggregated_df' = <<>>
            /\ growth_df' = <<>>
            /\ start_year' = 0 /\ end_year' = 0 /\ current_year' = 0
            /\ company_data' = company_data
       ELSE /\ start_year' = s /\ end_year' = e
            /\ current_year' = (IF freq = "Annual" THEN cy ELSE 0)
            /\ \E inRange \in {GetItemMask(Stored(sel), YearRangeMask(company_data[sel], s, e))} :
               \E keyed \in {KeyedFrame(inRange, freq, cy)} :
               \E sorted \in {SortByDate(keyed.frame.rows)} :
               \E agg \in {Aggregated(sorted, freq)} :
               \E fill \in FillChoices(agg) :
               \E grown \in {WithGrowth(agg, fill)} :
                   /\ aggregated_df' = grown
                   /\ growth_df' = GrowthFrame(grown)
                   /\ company_data' =
                        IF keyed.ref = "stored"
                        THEN [company_data EXCEPT ![sel] = keyed.frame]
                        ELSE company_data
            /\ pc' = "shown"
    /\ UNCHANGED <<grid, columns, i, companies>>

\* the slider's default value, line 82
DefaultStart(sel) ==
    IF sel = None \/ SliderYears(sel) = {} THEN 0 ELSE Year(MinDate(company_data[sel]))
DefaultEnd(sel) ==
    IF sel = None \/ SliderYears(sel) = {} THEN 0 ELSE Year(MaxDate(company_data[sel]))

\* the first run after the scan: every widget holds its default (the first
\* company, the first radio option, the full year range)
FirstRun ==
    /\ Parsed
    /\ \E sel \in {IF companies = <<>> THEN None ELSE companies[1]} :
        Run(sel, "Quarterly", DefaultStart(sel), DefaultEnd(sel), 0)

\* the user picks a company, line 63; the slider of the new company starts at
\* its default
SelectCompany ==
    /\ Rendered
    /\ \E sel \in Range(companies) \ {selected_company}, cy \in Clock(data_frequency) :
        Run(sel, data_frequency, DefaultStart(sel), DefaultEnd(sel), cy)

\* the user picks a frequency, line 65
SelectFrequency ==
    /\ Rendered
    /\ \E freq \in Frequencies \ {data_frequency} : \E cy \in Clock(freq) :
        Run(selected_company, freq,
            IF pc = "shown" THEN start_year ELSE DefaultStart(selected_company),
            IF pc = "shown" THEN end_year ELSE DefaultEnd(selected_company), cy)

\* the user moves the year slider, lines 79-83
SelectRange ==
    /\ pc = "shown"
    /\ \E s, e \in SliderYears(selected_company), cy \in Clock(data_frequency) :
        /\ s <= e
        /\ <<s, e>> # <<start_year, end_year>>
        /\ Run(selected_company, data_frequency, s, e, cy)

(* ------------------------------ inputs -------------------------------- *)
\* a file with a header row and no data row (a file without columns makes
\* read_csv raise, so the script never reaches the scan)
HeaderOnlyGrids ==
    {[headers |-> h, rows |-> <<>>] : h \in SeqsUpTo(HeaderCells, MaxCols) \ {<<>>}}

\* Two well-formed blocks: A in columns 0-2, " B" in columns 4-6.
DataHeaders == << <<"A">>, <<>>, <<>>, <<>>, <<" ", "B">>, <<>>, <<>> >>

\* the (EPS, Share Price) cells of a row: plain values, a zero and an
\* unparseable or missing cell in either column
ValueCells == {<<NumCell(1), NumCell(1)>>, <<NumCell(2), NumCell(1)>>,
               <<NumCell(0), NumCell(1)>>, <<NumCell(1), NumCell(0)>>,
               <<Text, NumCell(1)>>, <<NumCell(1), Blank>>}

BlockRows ==
    {<<d>> \o v : d \in {DateCell(x) : x \in Dates}, v \in ValueCells}
    \cup {<<d>> \o v : d \in {Blank, Text}, v \in {<<NumCell(1), NumCell(1)>>, <<Text, Blank>>}}

\* the dated rows of one company carry distinct dates (sort_values uses an
\* unstable sort, so the order of equal dates is not fixed by the script)
DistinctDates(rs) ==
    \A m, n \in 1..Len(rs) : (m # n /\ rs[m][1].kind = "date") => rs[m][1] # rs[n][1]

\* company " B" has one observation, on the first row
RowsOfB(n) == IF n = 1 THEN <<DateCell(20230305), NumCell(1), NumCell(1)>>
              ELSE <<Blank, Blank, Blank>>

DataGrids ==
    {[headers |-> DataHeaders,
      rows |-> [n \in 1..Len(a) |-> a[n] \o <<Blank>> \o RowsOfB(n)]] :
        a \in {rs \in SeqsUpTo(BlockRows, MaxRows) : DistinctDates(rs)}}

Init ==
    /\ grid \in HeaderOnlyGrids \cup DataGrids
    /\ columns = ReadCsvColumns(grid.headers)
    /\ i = 0
    /\ company_data = <<>>
    /\ companies = <<>>
    /\ pc = "scan"
    /\ selected_company = None
    /\ data_frequency = "Quarterly"
    /\ start_year = 0
    /\ end_year = 0
    /\ current_year = 0
    /\ aggregated_df = <<>>
    /\ growth_df = <<>>

Next == ScanSkip \/ ScanBlock \/ FirstRun \/ SelectCompany \/ SelectFrequency \/ SelectRange

Spec == Init /\ [][Next]_vars

(* ===================================================================== *)
(* The claims.  The calendar and the expected results are written out     *)
(* here on their own, from the stored frame and the widget values.        *)
(* ===================================================================== *)
ScanFinished == i >= num_columns

StoredRows == company_data[selected_company].rows

CalYear(d) == d \div 10000

CalQuarter(d) ==
    CASE (d \div 100) % 100 \in 1..3 -> 1
      [] (d \div 100) % 100 \in 4..6 -> 2
      [] (d \div 100) % 100 \in 7..9 -> 3
      [] OTHER -> 4

CalQuarterEnd(y, q) ==
    CASE q = 1 -> y * 10000 + 331
      [] q = 2 -> y * 10000 + 630
      [] q = 3 -> y * 10000 + 930
      [] OTHER -> y * 10000 + 1231

\* the observations of the selected company that the selected range keeps
InRangeObs ==
    {n \in 1..Len(StoredRows) :
        /\ StoredRows[n].Date # NaT
        /\ start_year <= CalYear(StoredRows[n].Date)
        /\ CalYear(StoredRows[n].Date) <= end_year}

\* ... and that the Annual exclusion of the current year keeps
UsableObs ==
    {n \in InRangeObs :
        data_frequency = "Annual" => CalYear(StoredRows[n].Date) < current_year}

PeriodOf(d) ==
    IF data_frequency = "Annual" THEN CalYear(d) ELSE CalYear(d) * 10 + CalQuarter(d)

MembersOf(p) == {n \in UsableObs : PeriodOf(StoredRows[n].Date) = p}

LastMember(p) ==
    CHOOSE n \in MembersOf(p) :
        \A m \in MembersOf(p) : StoredRows[m].Date <= StoredRows[n].Date

\* the blocks the scan rule of C1 gives for a header row, from 0-based index j
RECURSIVE ClaimedBlocks(_, _)
ClaimedBlocks(headers, j) ==
    IF j >= Len(headers) THEN {}
    ELSE IF Strip(headers[j + 1]) = <<>> THEN ClaimedBlocks(headers, j + 1)
    ELSE {[name |-> Strip(headers[j + 1]), start |-> j]} \cup ClaimedBlocks(headers, j + 4)

\* C1: a blank, whitespace-only or missing header at i is skipped by advancing
\* i by exactly 1 and starts no block; a non-blank header at i yields the block
\* named header[i].strip() over the columns i, i+1, i+2 and advances i by 4.
\* So the finished scan holds exactly the blocks this rule gives.
C1_Blocks ==
    ScanFinished =>
        /\ DOMAIN company_data = {b.name : b \in ClaimedBlocks(grid.headers, 0)}
        /\ \A b \in ClaimedBlocks(grid.headers, 0) :
              (\A c \in ClaimedBlocks(grid.headers, 0) : c.name = b.name => c.start <= b.start)
                  => company_data[b.name] = NormalizeBlock(b.start)

\* C2: a row whose Date cell is blank or is not a date is absent from the
\* company's series: every stored row has a non-null date.
C2_DateDrop ==
    \A name \in DOMAIN company_data :
        \A n \in 1..Len(company_data[name].rows) :
            company_data[name].rows[n].Date # NaT

\* C3: the aggregated eps and share price of a period are both the values of
\* the one observation with the maximum date in that period, a null included.
C3_LastOfPeriod ==
    pc = "shown" =>
        \A n \in 1..Len(aggregated_df) :
            /\ MembersOf(aggregated_df[n].Period) # {}
            /\ aggregated_df[n].EPS = StoredRows[LastMember(aggregated_df[n].Period)].EPS
            /\ aggregated_df[n].SharePrice =
                   StoredRows[LastMember(aggregated_df[n].Period)].SharePrice

\* C4: Annual aggregation emits no point of a year >= the current year, also
\* when end_year reaches it; Quarterly aggregation emits a point for every
\* quarter with an observation in the range, those of the current year and
\* later included.
C4_TrailingExclusion ==
    pc = "shown" =>
        /\ data_frequency = "Annual" =>
              \A n \in 1..Len(aggregated_df) :
                  /\ aggregated_df[n].Period < current_year
                  /\ CalYear(aggregated_df[n].Date) < current_year
        /\ data_frequency = "Quarterly" =>
              \A Y \in CurrentYears : \A m \in InRangeObs :
                  CalYear(StoredRows[m].Date) >= Y =>
                      \E n \in 1..Len(aggregated_df) :
                          aggregated_df[n].Period =
                              CalYear(StoredRows[m].Date) * 10 + CalQuarter(StoredRows[m].Date)

\* an Annual run whose range reaches the current year and whose company has an
\* observation there, next to an earlier year that is shown
C4_Witness ==
    /\ pc = "shown"
    /\ data_frequency = "Annual"
    /\ end_year >= current_year
    /\ \E m \in InRangeObs : CalYear(StoredRows[m].Date) >= current_year
    /\ aggregated_df # <<>>

\* C5: a Quarterly point is dated at the calendar end of its quarter (Mar 31,
\* Jun 30, Sep 30, Dec 31) whatever the day of the observation; an Annual point
\* is dated at the last observation of its year.
C5_RepresentativeDate ==
    pc = "shown" =>
        \A n \in 1..Len(aggregated_df) :
            /\ MembersOf(aggregated_df[n].Period) # {}
            /\ IF data_frequency = "Quarterly"
               THEN aggregated_df[n].Date =
                        CalQuarterEnd(aggregated_df[n].Period \div 10,
                                      aggregated_df[n].Period % 10)
               ELSE aggregated_df[n].Date =
                        StoredRows[LastMember(aggregated_df[n].Period)].Date

\* a Quarterly point dated on a day that holds no observation
C5_Witness ==
    /\ pc = "shown"
    /\ data_frequency = "Quarterly"
    /\ aggregated_df # <<>>
    /\ \A m \in 1..Len(StoredRows) : StoredRows[m].Date # aggregated_df[1].Date

\* the adjacent pairs C6 lets through
ValidPair(n) ==
    /\ aggregated_df[n - 1].EPS.k = "num" /\ aggregated_df[n - 1].SharePrice.k = "num"
    /\ aggregated_df[n].EPS.k = "num" /\ aggregated_df[n].SharePrice.k = "num"
    /\ aggregated_df[n - 1].EPS.v # 0 /\ aggregated_df[n - 1].SharePrice.v # 0

\* C6: a growth point exists for the adjacent pair (prev, curr) exactly when
\* the four values are non-null and the two previous ones non-zero; it carries
\* curr's date and (curr - prev) / prev * 100 for either metric.
C6_Growth ==
    pc = "shown" =>
        /\ {growth_df[g].Date : g \in 1..Len(growth_df)} =
               {aggregated_df[n].Date : n \in {m \in 2..Len(aggregated_df) : ValidPair(m)}}
        /\ Len(growth_df) = Cardinality({m \in 2..Len(aggregated_df) : ValidPair(m)})
        /\ \A g \in 1..Len(growth_df) : \A n \in 2..Len(aggregated_df) :
              (ValidPair(n) /\ growth_df[g].Date = aggregated_df[n].Date) =>
                  /\ growth_df[g].EPSGrowthRate =
                         Num(((aggregated_df[n].EPS.v - aggregated_df[n - 1].EPS.v) * 100)
                             \div aggregated_df[n - 1].EPS.v)
                  /\ growth_df[g].PriceGrowthRate =
                         Num(((aggregated_df[n].SharePrice.v
                               - aggregated_df[n - 1].SharePrice.v) * 100)
                             \div aggregated_df[n - 1].SharePrice.v)

\* C7: the aggregated frame holds exactly one point for each period with an
\* observation in the range (after the Annual exclusion), none for another
\* period, and is strictly ascending by date.
C7_OutputShape ==
    pc = "shown" =>
        /\ {aggregated_df[n].Period : n \in 1..Len(aggregated_df)} =
               {PeriodOf(StoredRows[m].Date) : m \in UsableObs}
        /\ Len(aggregated_df) = Cardinality({PeriodOf(StoredRows[m].Date) : m \in UsableObs})
        /\ \A n \in 1..(Len(aggregated_df) - 1) :
               aggregated_df[n].Date < aggregated_df[n + 1].Date

\* two periods shown, from rows stored latest first
C7_Witness ==
    /\ pc = "shown"
    /\ Len(aggregated_df) >= 2
    /\ Len(StoredRows) >= 2
    /\ StoredRows[1].Date > StoredRows[2].Date
    /\ StoredRows[2].Date # NaT

\* C8: a company without a usable observation never makes the run raise; the
\* run ends with empty aggregated and growth frames.
C8_NeverRaise ==
    /\ ScanFinished => pc # "raised"
    /\ (pc = "shown" /\ UsableObs = {}) => (aggregated_df = <<>> /\ growth_df = <<>>)

\* C9: a non-blank header with fewer than 3 columns left still yields a block
\* for that company and no error.
C9_ShortBlock ==
    [][(/\ pc = "scan"
        /\ i < num_columns
        /\ Strip(columns[i + 1]) # <<>>
        /\ i + 2 >= num_columns) =>
          (pc' # "raised" /\ Strip(columns[i + 1]) \in DOMAIN company_data')]_vars

\* C10: once the scan has built the mapping, no run changes a stored series:
\* same rows, same columns, same values.
C10_ReadOnly ==
    [][ScanFinished => company_data' = company_data]_vars

\* an Annual run that has filtered rows away and keyed its frame by year,
\* while the stored frame still holds every row under its three columns
C10_Witness ==
    /\ pc = "shown"
    /\ data_frequency = "Annual"
    /\ UsableObs # {}
    /\ UsableObs # {n \in 1..Len(StoredRows) : TRUE}
    /\ StoredRows # <<>>
    /\ company_data[selected_company].columns = BlockColumns
====
